---------------------------- MODULE Spec2Model ----------------------------
(***************************************************************************)
(* Model of the calculator of src/script.js: the expression evaluator,     *)
(* the history log and the editing state machine with its display.         *)
(*                                                                         *)
(* JavaScript strings are sequences of one-character strings, so           *)
(* "12+3" is <<"1","2","+","3">>.  Numbers are exact rationals n/d; the    *)
(* evaluator is followed only while every intermediate value stays within  *)
(* MaxNum, where the rational result and the IEEE-754 double of the code   *)
(* print the same text (the code rounds to 10 decimals before printing).   *)
(***************************************************************************)
EXTENDS Integers, Sequences, FiniteSets, TLC

\* ------------------------------------------------------------------ bounds
\* Largest numerator / denominator the evaluator is followed for.
MaxNum == 30000
\* Largest Len(expression) + Len(currentInput) a key press may build.
MaxLen == 3
\* Largest input a key press builds in the keyboard-only session.
MaxTyped == 4
\* Largest history log the editing specification builds with "=".
MaxHist == 1
\* Largest number a calculation appended to the history store is named by.
MaxAppends == 102
MaxOnes == 2
MaxStored == 2
MaxStale == 1
MaxEvalLen == 4
MaxCalcs == 3
MaxLog == 5

\* ------------------------------------------------------- program constants
MAX_HISTORY_ITEMS == 100
MAX_DISPLAY_ITEMS == 5
MaxInputLen == 16
FractionDigits == 10

\* ------------------------------------------------------------- characters
DigitChars == <<"0", "1", "2", "3", "4", "5", "6", "7", "8", "9">>
DigitSet == {DigitChars[i] : i \in 1..10}
CalcOps == {"+", "-", "*", "/"}
Times == "×"
Divide == "÷"
DisplayOps == {"+", "-", Times, Divide}
ValidChars == DigitSet \cup CalcOps \cup {".", "(", ")"}

DigitVal(c) == (CHOOSE i \in 1..10 : DigitChars[i] = c) - 1

ErrorStr == <<"E", "r", "r", "o", "r">>
\* Result of an evaluation that leaves the range the model follows.
OutOfRange == <<"?">>

IsDigits(s) == \A i \in 1..Len(s) : s[i] \in DigitSet

\* The longest run of digits of s that starts at position i (maybe empty).
RECURSIVE DigitRunEnd(_, _)
DigitRunEnd(s, i) ==
  IF i <= Len(s) /\ s[i] \in DigitSet THEN DigitRunEnd(s, i + 1) ELSE i

Abs(x) == IF x < 0 THEN -x ELSE x

\* The element of a set of one: Only({f(x) : x \in {v}}) is f(v) with v
\* computed once, as in "const x = v; return f(x)".
Only(S) == CHOOSE x \in S : TRUE

RECURSIVE Gcd(_, _)
Gcd(a, b) == IF b = 0 THEN a ELSE Gcd(b, a % b)

RECURSIVE Pow10(_)
Pow10(k) == IF k = 0 THEN 1 ELSE 10 * Pow10(k - 1)

\* 10^k is a denominator the evaluator is followed for.
FitsPow10(k) == k <= 9 /\ Pow10(k) <= MaxNum

\* Number.prototype.toString of a natural number.
RECURSIVE NatToStr(_)
NatToStr(n) ==
  IF n < 10 THEN <<DigitChars[n + 1]>>
  ELSE Append(NatToStr(n \div 10), DigitChars[(n % 10) + 1])

\* Value of a digit string in the given base; -1 once it exceeds MaxNum.
RECURSIVE NatOf(_, _, _)
NatOf(s, base, acc) ==
  IF s = <<>> THEN acc
  ELSE LET next == acc * base + DigitVal(Head(s))
       IN IF next > MaxNum THEN -1 ELSE NatOf(Tail(s), base, next)

\* ----------------------------------------------------------------- values
\* k: "num" (finite n/d), "inf" (+-Infinity), "nan" (NaN, and the RegExp
\* objects and strings that convert to NaN), "oor" (outside MaxNum).
Num(n, d) ==
  LET g == Gcd(Abs(n), d) IN
  IF Abs(n) \div g > MaxNum \/ d \div g > MaxNum
  THEN [k |-> "oor", n |-> 0, d |-> 1]
  ELSE [k |-> "num", n |-> n \div g, d |-> d \div g]
NaN == [k |-> "nan", n |-> 0, d |-> 1]
Inf == [k |-> "inf", n |-> 0, d |-> 1]
Oor == [k |-> "oor", n |-> 0, d |-> 1]

IsZero(a) == a.k = "num" /\ a.n = 0

Neg(a) == IF a.k = "num" THEN [a EXCEPT !.n = -a.n] ELSE a

Add(a, b) ==
  IF a.k = "nan" \/ b.k = "nan" THEN NaN
  ELSE IF a.k = "oor" \/ b.k = "oor" THEN Oor
  ELSE IF a.k = "inf" /\ b.k = "inf" THEN Oor
  ELSE IF a.k = "inf" \/ b.k = "inf" THEN Inf
  ELSE Num(a.n * b.d + b.n * a.d, a.d * b.d)

Sub(a, b) == Add(a, Neg(b))

Mul(a, b) ==
  IF a.k = "nan" \/ b.k = "nan" THEN NaN
  ELSE IF a.k = "oor" \/ b.k = "oor" THEN Oor
  ELSE IF a.k = "inf" \/ b.k = "inf"
       THEN IF IsZero(a) \/ IsZero(b) THEN NaN ELSE Inf
  ELSE Num(a.n * b.n, a.d * b.d)

Div(a, b) ==
  IF a.k = "nan" \/ b.k = "nan" THEN NaN
  ELSE IF a.k = "oor" \/ b.k = "oor" THEN Oor
  ELSE IF a.k = "inf" THEN (IF b.k = "inf" THEN NaN ELSE Inf)
  ELSE IF b.k = "inf" THEN Num(0, 1)
  ELSE IF b.n = 0 THEN (IF a.n = 0 THEN NaN ELSE Inf)
  ELSE IF b.n < 0 THEN Num(-(a.n * b.d), a.d * (-b.n))
  ELSE Num(a.n * b.d, a.d * b.n)

\* a multiplied by itself e times, e a natural number.
RECURSIVE PowNat(_, _)
PowNat(a, e) ==
  IF e = 0 THEN Num(1, 1)
  ELSE LET r == PowNat(a, e - 1) IN IF r.k = "oor" THEN Oor ELSE Mul(r, a)

\* The ** operator (Number::exponentiate); x ** 0 is 1 for every x.
Pow(a, b) ==
  IF IsZero(b) THEN Num(1, 1)
  ELSE IF a.k = "nan" \/ b.k = "nan" THEN NaN
  ELSE IF a.k # "num" \/ b.k # "num" \/ b.d # 1 THEN Oor
  ELSE IF a.n = 0 THEN (IF b.n > 0 THEN Num(0, 1) ELSE Inf)
  ELSE IF Abs(a.n) = a.d THEN (IF a.n > 0 \/ b.n % 2 = 0 THEN Num(1, 1) ELSE Num(-1, 1))
  ELSE IF Abs(b.n) > 31 THEN Oor
  ELSE IF b.n > 0 THEN PowNat(a, b.n)
  ELSE Div(Num(1, 1), PowNat(a, -b.n))


\* --------------------------------------------------- JavaScript tokenizer
\* Tokens of the text handed to new Function('return ' + sanitized): the
\* whitelist leaves digits, ".", "(", ")" and + - * /, from which JavaScript
\* also reads **, ++, --, comments (// and /* */) and RegExp literals.
NumTok(v) == [t |-> "num", v |-> v, o |-> ""]
OpTok(o) == [t |-> "op", v |-> NaN, o |-> o]
ReTok == [t |-> "num", v |-> NaN, o |-> "regexp"]
LParTok == [t |-> "lpar", v |-> NaN, o |-> "("]
RParTok == [t |-> "rpar", v |-> NaN, o |-> ")"]
BadTok == [t |-> "bad", v |-> NaN, o |-> ""]

\* Position of the first "*/" at or after i, 0 if the comment never ends.
RECURSIVE CommentEnd(_, _)
CommentEnd(s, i) ==
  IF i + 1 > Len(s) THEN 0
  ELSE IF s[i] = "*" /\ s[i + 1] = "/" THEN i
  ELSE CommentEnd(s, i + 1)

\* Position of the first "/" at or after i, 0 if there is none.
RECURSIVE SlashAt(_, _)
SlashAt(s, i) ==
  IF i > Len(s) THEN 0
  ELSE IF s[i] = "/" THEN i
  ELSE SlashAt(s, i + 1)

\* A RegExp body over the whitelist is a pattern when its parentheses
\* balance and every quantifier (+ or *) follows an atom.
RECURSIVE ValidPattern(_, _, _, _)
ValidPattern(b, i, depth, canQuant) ==
  IF i > Len(b) THEN depth = 0
  ELSE IF b[i] \in {"+", "*"} THEN canQuant /\ ValidPattern(b, i + 1, depth, FALSE)
  ELSE IF b[i] = "(" THEN ValidPattern(b, i + 1, depth + 1, FALSE)
  ELSE IF b[i] = ")" THEN depth > 0 /\ ValidPattern(b, i + 1, depth - 1, TRUE)
  ELSE ValidPattern(b, i + 1, depth, TRUE)

\* A numeric literal that starts at position i: [v |-> value, e |-> the
\* position after it].  A literal with a leading 0 and more digits is a
\* legacy octal literal (sloppy mode) unless it has an 8 or a 9.
NumericLiteral(s, i) ==
  IF s[i] = "."
  THEN LET e == DigitRunEnd(s, i + 1)
           frac == SubSeq(s, i + 1, e - 1)
           n == NatOf(frac, 10, 0)
       IN [v |-> IF n < 0 \/ ~FitsPow10(Len(frac)) THEN Oor
                 ELSE Num(n, Pow10(Len(frac))),
           e |-> e]
  ELSE
    LET ie == DigitRunEnd(s, i)
        int == SubSeq(s, i, ie - 1)
        legacy == Len(int) > 1 /\ int[1] = "0"
        octal == legacy /\ \A j \in 1..Len(int) : DigitVal(int[j]) < 8
    IN IF octal
       THEN LET n == NatOf(int, 8, 0)
            IN [v |-> IF n < 0 THEN Oor ELSE Num(n, 1), e |-> ie]
       ELSE IF ie <= Len(s) /\ s[ie] = "."
       THEN LET fe == DigitRunEnd(s, ie + 1)
                frac == SubSeq(s, ie + 1, fe - 1)
                n == NatOf(int \o frac, 10, 0)
            IN [v |-> IF n < 0 \/ ~FitsPow10(Len(frac)) THEN Oor
                      ELSE Num(n, Pow10(Len(frac))),
                e |-> fe]
       ELSE LET n == NatOf(int, 10, 0)
            IN [v |-> IF n < 0 THEN Oor ELSE Num(n, 1), e |-> ie]

\* The tokens of s from position i on; operand says that the previous token
\* ended an operand, which makes a "/" a division and not a RegExp literal.
RECURSIVE Lex(_, _, _)
Lex(s, i, operand) ==
  IF i > Len(s) THEN <<>>
  ELSE LET c == s[i]
           nx == IF i < Len(s) THEN s[i + 1] ELSE ""
  IN CASE c = "/" /\ nx = "/" -> <<>>
       [] c = "/" /\ nx = "*" ->
            LET e == CommentEnd(s, i + 2)
            IN IF e = 0 THEN <<BadTok>> ELSE Lex(s, e + 2, operand)
       [] c = "/" /\ nx \notin {"/", "*"} /\ operand ->
            <<OpTok("/")>> \o Lex(s, i + 1, FALSE)
       [] c = "/" /\ nx \notin {"/", "*"} /\ ~operand ->
            LET e == SlashAt(s, i + 1)
            IN IF e = 0 THEN <<BadTok>>
               ELSE IF ~ValidPattern(SubSeq(s, i + 1, e - 1), 1, 0, FALSE)
                    THEN <<BadTok>>
               ELSE IF e < Len(s) /\ s[e + 1] \in DigitSet THEN <<BadTok>>
               ELSE <<ReTok>> \o Lex(s, e + 1, TRUE)
       [] c = "*" -> IF nx = "*" THEN <<OpTok("**")>> \o Lex(s, i + 2, FALSE)
                     ELSE <<OpTok("*")>> \o Lex(s, i + 1, FALSE)
       [] c = "+" -> IF nx = "+" THEN <<OpTok("++")>> \o Lex(s, i + 2, FALSE)
                     ELSE <<OpTok("+")>> \o Lex(s, i + 1, FALSE)
       [] c = "-" -> IF nx = "-" THEN <<OpTok("--")>> \o Lex(s, i + 2, FALSE)
                     ELSE <<OpTok("-")>> \o Lex(s, i + 1, FALSE)
       [] c = "(" -> <<LParTok>> \o Lex(s, i + 1, FALSE)
       [] c = ")" -> <<RParTok>> \o Lex(s, i + 1, TRUE)
       [] c \in DigitSet \/ (c = "." /\ nx \in DigitSet) ->
            LET lit == NumericLiteral(s, i)
            IN <<NumTok(lit.v)>> \o Lex(s, lit.e, TRUE)
       [] OTHER -> <<BadTok>>

\* ------------------------------------------------------ JavaScript parser
\* Each Parse operator reads one nonterminal at position p of the tokens and
\* returns [ok, v, p]: whether it parsed, its value, the position after it.
Fail == [ok |-> FALSE, v |-> NaN, p |-> 0]
Done(v, p) == [ok |-> TRUE, v |-> v, p |-> p]

IsOp(ts, p, ops) == p <= Len(ts) /\ ts[p].t = "op" /\ ts[p].o \in ops

RECURSIVE ParseAdditive(_, _)
RECURSIVE AdditiveRest(_, _, _)
RECURSIVE ParseMultiplicative(_, _)
RECURSIVE MultiplicativeRest(_, _, _)
RECURSIVE ParseExponentiation(_, _)
RECURSIVE ParseUnary(_, _)
RECURSIVE ParsePrimary(_, _)

\* PrimaryExpression: a literal or a parenthesised expression.  A "(" right
\* after it would be a call of a value that is no function (TypeError).
ParsePrimary(ts, p) ==
  IF p > Len(ts) THEN Fail
  ELSE IF ts[p].t = "num"
  THEN IF p + 1 <= Len(ts) /\ ts[p + 1].t = "lpar" THEN Fail
       ELSE Done(ts[p].v, p + 1)
  ELSE IF ts[p].t = "lpar"
  THEN Only({IF in.ok /\ in.p <= Len(ts) /\ ts[in.p].t = "rpar"
             THEN IF in.p + 1 <= Len(ts) /\ ts[in.p + 1].t = "lpar" THEN Fail
                  ELSE Done(in.v, in.p + 1)
             ELSE Fail : in \in {ParseAdditive(ts, p + 1)}})
  ELSE Fail

\* UnaryExpression: + or - applied to a UnaryExpression.
ParseUnary(ts, p) ==
  IF IsOp(ts, p, {"+", "-"})
  THEN Only({IF ~r.ok THEN Fail
             ELSE Done(IF ts[p].o = "-" THEN Neg(r.v) ELSE r.v, r.p)
             : r \in {ParseUnary(ts, p + 1)}})
  ELSE ParsePrimary(ts, p)

\* ExponentiationExpression: right associative, and its base may not be a
\* unary + or - expression (a SyntaxError).
ParseExponentiation(ts, p) ==
  Only({IF ~l.ok THEN Fail
        ELSE IF IsOp(ts, l.p, {"**"})
        THEN IF IsOp(ts, p, {"+", "-"}) THEN Fail
             ELSE Only({IF ~r.ok THEN Fail ELSE Done(Pow(l.v, r.v), r.p)
                        : r \in {ParseExponentiation(ts, l.p + 1)}})
        ELSE l : l \in {ParseUnary(ts, p)}})

MultiplicativeRest(ts, p, left) ==
  IF IsOp(ts, p, {"*", "/"})
  THEN Only({IF ~r.ok THEN Fail
             ELSE Only({MultiplicativeRest(ts, r.p, v)
                        : v \in {IF ts[p].o = "*" THEN Mul(left, r.v)
                                 ELSE Div(left, r.v)}})
             : r \in {ParseExponentiation(ts, p + 1)}})
  ELSE Done(left, p)

ParseMultiplicative(ts, p) ==
  Only({IF ~l.ok THEN Fail ELSE MultiplicativeRest(ts, l.p, l.v)
        : l \in {ParseExponentiation(ts, p)}})

AdditiveRest(ts, p, left) ==
  IF IsOp(ts, p, {"+", "-"})
  THEN Only({IF ~r.ok THEN Fail
             ELSE Only({AdditiveRest(ts, r.p, v)
                        : v \in {IF ts[p].o = "+" THEN Add(left, r.v)
                                 ELSE Sub(left, r.v)}})
             : r \in {ParseMultiplicative(ts, p + 1)}})
  ELSE Done(left, p)

ParseAdditive(ts, p) ==
  Only({IF ~l.ok THEN Fail ELSE AdditiveRest(ts, l.p, l.v)
        : l \in {ParseMultiplicative(ts, p)}})

\* new Function('return ' + text)(): the value, or NaN for "return" alone
\* (undefined), or Fail when the text does not parse or the call throws.
RunFunction(text) ==
  Only({IF ts = <<>> THEN Done(NaN, 1)
        ELSE Only({IF r.ok /\ r.p = Len(ts) + 1 THEN r ELSE Fail
                   : r \in {ParseAdditive(ts, 1)}})
        : ts \in {Lex(text, 1, FALSE)}})


\* -------------------------------------------------- formatting the result
\* The first k digits of r/d after the point (r < d), by long division.
RECURSIVE FracDigits(_, _, _)
FracDigits(r, d, k) ==
  IF k = 0 THEN <<>>
  ELSE <<DigitChars[((r * 10) \div d) + 1]>> \o FracDigits((r * 10) % d, d, k - 1)

\* The remainder of that long division after k digits.
RECURSIVE FracRest(_, _, _)
FracRest(r, d, k) == IF k = 0 THEN r ELSE FracRest((r * 10) % d, d, k - 1)

\* A digit string plus one in its last place.
RECURSIVE IncDigits(_)
IncDigits(s) ==
  IF s = <<>> THEN <<"1">>
  ELSE LET last == s[Len(s)]
           front == SubSeq(s, 1, Len(s) - 1)
       IN IF last = "9" THEN Append(IncDigits(front), "0")
          ELSE Append(front, DigitChars[DigitVal(last) + 2])

RECURSIVE TrimZeros(_)
TrimZeros(s) ==
  IF s # <<>> /\ s[Len(s)] = "0" THEN TrimZeros(SubSeq(s, 1, Len(s) - 1)) ELSE s

RECURSIVE LeadingZeros(_)
LeadingZeros(s) ==
  IF s # <<>> /\ Head(s) = "0" THEN 1 + LeadingZeros(Tail(s)) ELSE 0

\* A power of two is exact in a double, so a tie of toFixed is a real tie.
RECURSIVE IsPow2(_)
IsPow2(d) == d = 1 \/ (d % 2 = 0 /\ IsPow2(d \div 2))

\* parseFloat(x.toFixed(10)).toString() for the finite non-integer x = n/d:
\* rounded to 10 decimals (ties away from zero), trailing zeros dropped, in
\* exponent form below 1e-6 (Number::toString).
FixedToString(n, d) ==
  LET a == Abs(n)
      ip == a \div d
      rest == FracRest(a % d, d, FractionDigits)
      raw == NatToStr(ip) \o FracDigits(a % d, d, FractionDigits)
      all == IF 2 * rest >= d THEN IncDigits(raw) ELSE raw
      int == SubSeq(all, 1, Len(all) - FractionDigits)
      frac == TrimZeros(SubSeq(all, Len(all) - FractionDigits + 1, Len(all)))
      sign == IF n < 0 /\ (int # <<"0">> \/ frac # <<>>) THEN <<"-">> ELSE <<>>
      z == LeadingZeros(frac)
      sig == SubSeq(frac, z + 1, Len(frac))
  IN IF 2 * rest = d /\ ~IsPow2(d) THEN OutOfRange
     ELSE IF frac = <<>> THEN sign \o int
     ELSE IF int = <<"0">> /\ z >= 6
     THEN sign \o <<Head(sig)>>
          \o (IF Len(sig) > 1 THEN <<".">> \o Tail(sig) ELSE <<>>)
          \o <<"e", "-">> \o NatToStr(z + 1)
     ELSE sign \o int \o <<".">> \o frac

\* result.toString() for an integer result.
IntToString(n) == IF n < 0 THEN <<"-">> \o NatToStr(-n) ELSE NatToStr(n)

\* ------------------------------------------------------------- evaluator
IsWhitespace(c) == c \in {" ", "\t", "\n", "\r"}
NotWhitespace(c) == ~IsWhitespace(c)

\* replace(/×/g, '*').replace(/÷/g, '/')
ToCalcOps(s) ==
  [i \in 1..Len(s) |-> IF s[i] = Times THEN "*"
                       ELSE IF s[i] = Divide THEN "/" ELSE s[i]]

\* replace(/\*/g, '×').replace(/\//g, '÷')
ToDisplayOps(s) ==
  [i \in 1..Len(s) |-> IF s[i] = "*" THEN Times
                       ELSE IF s[i] = "/" THEN Divide ELSE s[i]]

evaluateExpression(expr) ==
  LET stripped == SelectSeq(expr, NotWhitespace)
      sanitized == ToCalcOps(stripped)
  IN IF stripped = <<>> THEN <<"0">>
     ELSE IF \E i \in 1..Len(sanitized) : sanitized[i] \notin ValidChars
     THEN ErrorStr
     ELSE Only({IF ~r.ok THEN ErrorStr
                ELSE IF r.v.k \in {"nan", "inf"} THEN ErrorStr
                ELSE IF r.v.k = "oor" THEN OutOfRange
                ELSE IF r.v.d = 1 THEN IntToString(r.v.n)
                ELSE FixedToString(r.v.n, r.v.d)
                : r \in {RunFunction(sanitized)}})


\* ------------------------------------------------------------------ state
VARIABLES
  expression,        \* let expression: the confirmed part of the input
  currentInput,      \* let currentInput: the token being typed
  history,           \* let history: the log, newest first
  storage,           \* localStorage[STORAGE_KEY]
  displayExpression, \* textContent of #displayExpression
  displayResult,     \* textContent of #displayResult
  displayPreview,    \* textContent of #displayPreview
  expressionText     \* the token spans of #expressionText, as last rendered

vars == <<expression, currentInput, history, storage, displayExpression,
          displayResult, displayPreview, expressionText>>
displayVars == <<displayExpression, displayResult, displayPreview, expressionText>>
historyVars == <<history, storage>>

\* A history entry; the timestamp (Date.now()) is never read and is left out.
Entry(expr, result) == [expression |-> expr, result |-> result]

NoItem == [has |-> FALSE, log |-> <<>>]
Stored(log) == [has |-> TRUE, log |-> log]

\* ------------------------------------------------------------- projector
\* /^\d+(\.\d+)?$/
IsNumberText(s) ==
  LET e == DigitRunEnd(s, 1)
  IN IF e = 1 THEN FALSE
     ELSE IF e = Len(s) + 1 THEN TRUE
     ELSE s[e] = "." /\ e < Len(s) /\ DigitRunEnd(s, e + 1) = Len(s) + 1

TokenSeparators == {"+", "-", Times, Divide, "(", ")"}

\* displayExpr.split(/([+\-×÷()])/g).filter(t => t), from position i on,
\* cur being the text read since the last separator.
RECURSIVE SplitTokens(_, _, _)
SplitTokens(s, i, cur) ==
  IF i > Len(s) THEN (IF cur = <<>> THEN <<>> ELSE <<cur>>)
  ELSE IF s[i] \in TokenSeparators
  THEN (IF cur = <<>> THEN <<>> ELSE <<cur>>) \o <<<<s[i]>>>>
       \o SplitTokens(s, i + 1, <<>>)
  ELSE SplitTokens(s, i + 1, Append(cur, s[i]))

\* The token spans; the span at position p carries data-index p - 1.
renderExpressionHTML(expr) ==
  IF expr = <<>> THEN <<>> ELSE SplitTokens(ToDisplayOps(expr), 1, <<>>)

\* A span of class expression-operator (it has data-op).
IsOperatorToken(tok) == Len(tok) = 1 /\ tok[1] \in DisplayOps
\* A span of class expression-number that has data-value.
IsNumberToken(tok) == ~IsOperatorToken(tok) /\ IsNumberText(tok)

\* The preview line of updateDisplay.
Preview(e, c) ==
  IF c # <<>> /\ IsNumberText(c)
  THEN Only({IF result # ErrorStr /\ result # c THEN <<"=", " ">> \o result
             ELSE <<>> : result \in {evaluateExpression(e \o c)}})
  ELSE IF c = <<>> /\ e # <<>>
  THEN IF e[Len(e)] \in CalcOps
       THEN LET completeExpr == SubSeq(e, 1, Len(e) - 1)
            IN IF completeExpr # <<>>
               THEN Only({IF result # ErrorStr THEN <<"=", " ">> \o result
                          ELSE <<>> : result \in {evaluateExpression(completeExpr)}})
               ELSE <<>>
       ELSE <<>>
  ELSE <<>>

updateDisplay(e, c) ==
  /\ expressionText' = renderExpressionHTML(e)
  /\ displayExpression' = ToDisplayOps(e)
  /\ displayPreview' = Preview(e, c)
  /\ displayResult' = (IF c # <<>> THEN c ELSE <<"0">>)

\* ---------------------------------------------------------- history store
\* saveHistory without the cut to MAX_HISTORY_ITEMS.
saveHistoryNoCut(log, fails) ==
  [history |-> log, storage |-> IF fails THEN storage ELSE Stored(log)]

\* saveHistory with the write before the cut, so that a failed write skips
\* the cut.
saveHistoryWriteFirst(log, fails) ==
  LET cut == IF Len(log) > MAX_HISTORY_ITEMS
             THEN SubSeq(log, 1, MAX_HISTORY_ITEMS) ELSE log
  IN IF fails THEN [history |-> log, storage |-> storage]
     ELSE [history |-> cut, storage |-> Stored(log)]

\* saveHistory: the log cut to the cap, and what the store holds afterwards
\* (setItem may throw, which is caught).
saveHistory(log, fails) ==
  LET cut == IF Len(log) > MAX_HISTORY_ITEMS
             THEN SubSeq(log, 1, MAX_HISTORY_ITEMS) ELSE log
  IN [history |-> cut, storage |-> IF fails THEN storage ELSE Stored(cut)]

\* addHistory with a front-entry test that compares the result alone.
addHistoryResultOnly(expr, result, fails) ==
  IF history # <<>> /\ history[1].result = result
  THEN [history |-> history, storage |-> storage]
  ELSE saveHistory(<<Entry(expr, result)>> \o history, fails)

\* addHistory without the front-entry test.
addHistoryNoDedup(expr, result, fails) ==
  saveHistory(<<Entry(expr, result)>> \o history, fails)

\* addHistory: nothing if the front entry has the same expression and
\* result, else unshift and save.
addHistory(expr, result, fails) ==
  IF history # <<>> /\ history[1].expression = expr /\ history[1].result = result
  THEN [history |-> history, storage |-> storage]
  ELSE saveHistory(<<Entry(expr, result)>> \o history, fails)

\* clearAllHistory that empties the log and leaves the store alone.
clearAllHistoryUnsaved(fails) ==
  /\ history' = <<>>
  /\ storage' = storage
  /\ UNCHANGED <<expression, currentInput, displayVars>>

clearAllHistory(fails) ==
  LET s == saveHistory(<<>>, fails)
  IN /\ history' = s.history
     /\ storage' = s.storage
     /\ UNCHANGED <<expression, currentInput, displayVars>>

\* history.splice(index, 1), index 0-based.
deleteHistoryItem(index, fails) ==
  LET s == saveHistory([i \in 1..(Len(history) - 1) |->
                          IF i <= index THEN history[i] ELSE history[i + 1]],
                       fails)
  IN /\ index < Len(history)
     /\ history' = s.history
     /\ storage' = s.storage
     /\ UNCHANGED <<expression, currentInput, displayVars>>

\* Texts under STORAGE_KEY that are not the text of an array: one that
\* JSON.parse throws on, and the empty text.
Unparsable == [has |-> TRUE, text |-> <<"{">>]
EmptyText == [has |-> TRUE, text |-> <<>>]

\* loadHistory: the log after the load, log being the one before it.  getItem
\* may throw (denied) and JSON.parse throws on an unparsable text; both are
\* caught and empty the log.  A missing key and the empty text leave the log
\* as it is, and whatever array JSON.parse gives is taken as the log.
loadHistory(log, denied) ==
  IF denied THEN <<>>
  ELSE IF ~storage.has \/ storage = EmptyText THEN log
  ELSE IF storage = Unparsable THEN <<>>
  ELSE storage.log

loadFromHistory(index) ==
  /\ index < Len(history)
  /\ expression' = history[index + 1].expression
  /\ currentInput' = <<>>
  /\ updateDisplay(expression', currentInput')
  /\ UNCHANGED historyVars


\* ------------------------------------------------------ token-click edits
\* Char codes of the characters a character class of this program names.
CharCode(c) ==
  CASE c = "*" -> 42 [] c = "+" -> 43 [] c = "-" -> 45 [] c = "." -> 46
    [] c = "/" -> 47 [] OTHER -> 48 + DigitVal(c)

\* The class of the pattern handleNumberClick hands to new RegExp.  The
\* pattern is written in a string literal, where \- is just -, so the class
\* reads [+-*/]: the range + to *, then /.
NumberClickClass == <<"+", "-", "*", "/">>

\* ClassRanges: a range a-b needs CharCode(a) <= CharCode(b), else new RegExp
\* throws a SyntaxError.
RECURSIVE ClassCompiles(_)
ClassCompiles(cls) ==
  IF cls = <<>> THEN TRUE
  ELSE IF Len(cls) >= 3 /\ cls[2] = "-"
  THEN CharCode(cls[1]) <= CharCode(cls[3]) /\ ClassCompiles(SubSeq(cls, 4, Len(cls)))
  ELSE ClassCompiles(Tail(cls))

\* The characters a class that compiles matches.
RECURSIVE ClassChars(_)
ClassChars(cls) ==
  IF cls = <<>> THEN {}
  ELSE IF Len(cls) >= 3 /\ cls[2] = "-"
  THEN {c \in ValidChars : CharCode(cls[1]) <= CharCode(c) /\ CharCode(c) <= CharCode(cls[3])}
       \cup ClassChars(SubSeq(cls, 4, Len(cls)))
  ELSE {Head(cls)} \cup ClassChars(Tail(cls))

\* Length of the longest prefix of s made of characters of set.
RECURSIVE PrefixRun(_, _)
PrefixRun(s, set) ==
  IF s # <<>> /\ Head(s) \in set THEN 1 + PrefixRun(Tail(s), set) ELSE 0

\* Length of the longest suffix of s made of characters of set.
RECURSIVE SuffixRun(_, _)
SuffixRun(s, set) ==
  IF s # <<>> /\ s[Len(s)] \in set
  THEN 1 + SuffixRun(SubSeq(s, 1, Len(s) - 1), set) ELSE 0

\* expression.match(/^([cls]*)(value)([cls]*)$/): the two groups joined, or
\* the text itself when there is no match.  Group 1 is greedy, so the match
\* holds for some split of the text into class*, value, class*.
RemoveMatch(text, value, set) ==
  LET splits == {a \in 0..Len(text) :
                   /\ a + Len(value) <= Len(text)
                   /\ \A i \in 1..a : text[i] \in set
                   /\ SubSeq(text, a + 1, a + Len(value)) = value
                   /\ \A i \in (a + Len(value) + 1)..Len(text) : text[i] \in set}
  IN IF splits = {} THEN text
     ELSE LET a == CHOOSE x \in splits : \A y \in splits : y <= x
          IN SubSeq(text, 1, a) \o SubSeq(text, a + Len(value) + 1, Len(text))

\* handleNumberClick(value, index): the pending input is flushed, then
\* new RegExp throws when the class does not compile, which ends the handler
\* (nothing catches it; the display is not refreshed).
handleNumberClick(value, index) ==
  LET flushed == IF currentInput # <<>> THEN expression \o currentInput
                 ELSE expression
  IN /\ IF ~ClassCompiles(NumberClickClass)
        THEN /\ expression' = flushed
             /\ UNCHANGED <<currentInput, displayVars>>
        ELSE LET removed == RemoveMatch(flushed, value, ClassChars(NumberClickClass))
                 lead == PrefixRun(removed, CalcOps)
             IN /\ expression' = SubSeq(removed, lead + 1, Len(removed))
                /\ currentInput' = value
                /\ updateDisplay(expression', currentInput')
     /\ UNCHANGED historyVars

opCycle == <<"+", "-", Times, Divide>>
opCalcMap(op) == IF op = Times THEN "*" ELSE IF op = Divide THEN "/" ELSE op

\* The loop of handleOperatorClick: the operator whose count (0-based, among
\* the canonical operators of expr) equals index is replaced by newCalcOp.
RECURSIVE ReplaceOperator(_, _, _, _, _)
ReplaceOperator(expr, i, opCount, index, newCalcOp) ==
  IF i > Len(expr) THEN <<>>
  ELSE IF expr[i] \in CalcOps
  THEN <<IF opCount = index THEN newCalcOp ELSE expr[i]>>
       \o ReplaceOperator(expr, i + 1, opCount + 1, index, newCalcOp)
  ELSE <<expr[i]>> \o ReplaceOperator(expr, i + 1, opCount, index, newCalcOp)

handleOperatorClick(oldOp, index) ==
  IF oldOp \notin DisplayOps THEN UNCHANGED vars
  ELSE LET currentIndex == CHOOSE i \in 1..4 : opCycle[i] = oldOp
           newOp == opCycle[(currentIndex % 4) + 1]
       IN /\ expression' = ReplaceOperator(expression, 1, 0, index, opCalcMap(newOp))
          /\ updateDisplay(expression', currentInput)
          /\ UNCHANGED <<currentInput, historyVars>>

\* -------------------------------------------------------------- key edits
\* handleNumber without the rules for a lone "0": the digit is appended.
handleNumberAppends(digit) ==
  IF Len(currentInput) >= MaxInputLen THEN UNCHANGED vars
  ELSE IF digit = "." /\ \E i \in 1..Len(currentInput) : currentInput[i] = "."
  THEN UNCHANGED vars
  ELSE IF digit = "." /\ currentInput = <<>>
  THEN /\ currentInput' = <<"0", ".">>
       /\ updateDisplay(expression, currentInput')
       /\ UNCHANGED <<expression, historyVars>>
  ELSE /\ currentInput' = Append(currentInput, digit)
       /\ updateDisplay(expression, currentInput')
       /\ UNCHANGED <<expression, historyVars>>

handleNumber(digit) ==
  IF Len(currentInput) >= MaxInputLen THEN UNCHANGED vars
  ELSE IF digit = "." /\ \E i \in 1..Len(currentInput) : currentInput[i] = "."
  THEN UNCHANGED vars
  ELSE IF digit = "." /\ currentInput = <<>>
  THEN /\ currentInput' = <<"0", ".">>
       /\ updateDisplay(expression, currentInput')
       /\ UNCHANGED <<expression, historyVars>>
  ELSE IF digit = "0" /\ currentInput = <<"0">> THEN UNCHANGED vars
  ELSE /\ currentInput' = (IF currentInput = <<"0">> /\ digit # "."
                           THEN <<digit>> ELSE Append(currentInput, digit))
       /\ updateDisplay(expression, currentInput')
       /\ UNCHANGED <<expression, historyVars>>

\* handleOperator that replaces a trailing operator instead of appending
\* after it.
handleOperatorReplacing(operator) ==
  LET calcOperator == opCalcMap(operator)
      flushed == expression \o currentInput
      base == IF flushed # <<>> /\ flushed[Len(flushed)] \in CalcOps
              THEN SubSeq(flushed, 1, Len(flushed) - 1) ELSE flushed
  IN IF currentInput = <<>> /\ expression = <<>> THEN UNCHANGED vars
     ELSE /\ expression' = Append(base, calcOperator)
          /\ currentInput' = <<>>
          /\ updateDisplay(expression', currentInput')
          /\ UNCHANGED historyVars

\* handleOperator that leaves the flushed input in currentInput.
handleOperatorKeepsInput(operator) ==
  LET calcOperator == opCalcMap(operator)
  IN IF currentInput = <<>> /\ expression = <<>> THEN UNCHANGED vars
     ELSE /\ expression' = Append(expression \o currentInput, calcOperator)
          /\ currentInput' = currentInput
          /\ updateDisplay(expression', currentInput')
          /\ UNCHANGED historyVars

handleOperator(operator) ==
  LET calcOperator == opCalcMap(operator)
  IN IF currentInput = <<>> /\ expression = <<>> THEN UNCHANGED vars
     ELSE /\ expression' = Append(expression \o currentInput, calcOperator)
          /\ currentInput' = <<>>
          /\ updateDisplay(expression', currentInput')
          /\ UNCHANGED historyVars

\* handleEquals that hands every result, the error marker too, to addHistory.
handleEqualsStoresError(fails) ==
  LET full == expression \o currentInput
  IN IF full = <<>>
     THEN /\ displayResult' = <<"0">>
          /\ UNCHANGED <<expression, currentInput, historyVars,
                         displayExpression, displayPreview, expressionText>>
     ELSE \E result \in {evaluateExpression(full)} :
          LET added == addHistory(ToDisplayOps(full), result, fails)
          IN /\ displayExpression' = ToDisplayOps(full)
             /\ displayResult' = result
             /\ history' = added.history
             /\ storage' = added.storage
             /\ expression' = <<>>
             /\ currentInput' = (IF result # ErrorStr THEN result ELSE <<>>)
             /\ UNCHANGED <<displayPreview, expressionText>>

handleEquals(fails) ==
  LET full == expression \o currentInput
  IN IF full = <<>>
     THEN /\ displayResult' = <<"0">>
          /\ UNCHANGED <<expression, currentInput, historyVars,
                         displayExpression, displayPreview, expressionText>>
     ELSE \E result \in {evaluateExpression(full)} :
          LET added == IF result # ErrorStr
                       THEN addHistory(ToDisplayOps(full), result, fails)
                       ELSE [history |-> history, storage |-> storage]
          IN /\ displayExpression' = ToDisplayOps(full)
             /\ displayResult' = result
             /\ history' = added.history
             /\ storage' = added.storage
             /\ expression' = <<>>
             /\ currentInput' = (IF result # ErrorStr THEN result ELSE <<>>)
             /\ UNCHANGED <<displayPreview, expressionText>>

handleClear ==
  /\ currentInput' = <<>>
  /\ expression' = <<>>
  /\ updateDisplay(expression', currentInput')
  /\ UNCHANGED historyVars

\* handleBackspace that drops the whole pending input, not its last character.
handleBackspaceClearsInput ==
  IF currentInput # <<>>
  THEN /\ currentInput' = <<>>
       /\ updateDisplay(expression, currentInput')
       /\ UNCHANGED <<expression, historyVars>>
  ELSE UNCHANGED vars

handleBackspace ==
  IF currentInput # <<>>
  THEN /\ currentInput' = SubSeq(currentInput, 1, Len(currentInput) - 1)
       /\ updateDisplay(expression, currentInput')
       /\ UNCHANGED <<expression, historyVars>>
  ELSE IF expression # <<>>
  THEN LET lastChar == expression[Len(expression)]
           remaining == SubSeq(expression, 1, Len(expression) - 1)
           run == SuffixRun(remaining, CalcOps)
           lastOpIndex == Len(remaining) - run
       IN /\ IF lastChar \in CalcOps
             THEN /\ expression' = remaining
                  /\ currentInput' = currentInput
             ELSE IF run > 0
             THEN /\ currentInput' = Append(SubSeq(remaining, lastOpIndex + 2,
                                                   Len(remaining)), lastChar)
                  /\ expression' = SubSeq(remaining, 1, lastOpIndex + 1)
             ELSE /\ currentInput' = Append(remaining, lastChar)
                  /\ expression' = <<>>
          /\ updateDisplay(expression', currentInput')
          /\ UNCHANGED historyVars
  ELSE UNCHANGED vars

\* parseFloat(s): the value of the longest prefix that is a decimal literal
\* with an optional sign, NaN if there is none.
parseFloat(s) ==
  LET signed == s # <<>> /\ s[1] \in {"+", "-"}
      i0 == IF signed THEN 2 ELSE 1
      ie == DigitRunEnd(s, i0)
      dot == ie <= Len(s) /\ s[ie] = "."
      fe == IF dot THEN DigitRunEnd(s, ie + 1) ELSE ie
      int == SubSeq(s, i0, ie - 1)
      frac == IF dot THEN SubSeq(s, ie + 1, fe - 1) ELSE <<>>
      n == NatOf(int \o frac, 10, 0)
      exp == fe <= Len(s) /\ s[fe] \in {"e", "E"}
  IN IF int = <<>> /\ frac = <<>> THEN NaN
     ELSE IF exp \/ n < 0 \/ ~FitsPow10(Len(frac)) THEN Oor
     ELSE IF signed /\ s[1] = "-" THEN Neg(Num(n, Pow10(Len(frac))))
     ELSE Num(n, Pow10(Len(frac)))

\* (num / 100).toString().  The double quotient prints as the exact decimal
\* when num is exact in a double (its denominator is a power of two) and the
\* quotient has at most 10 decimals; other inputs are not followed.
PercentString(num) ==
  LET q == Div(num, Num(100, 1))
  IN IF q.k # "num" \/ ~IsPow2(num.d) THEN OutOfRange
     ELSE IF q.d = 1 THEN IntToString(q.n)
     ELSE IF FracRest(Abs(q.n) % q.d, q.d, FractionDigits) # 0 THEN OutOfRange
     ELSE FixedToString(q.n, q.d)

handlePercent ==
  IF currentInput = <<>> THEN UNCHANGED vars
  ELSE LET num == parseFloat(currentInput)
       IN IF num.k = "nan" THEN UNCHANGED vars
          ELSE /\ currentInput' = PercentString(num)
               /\ updateDisplay(expression, currentInput')
               /\ UNCHANGED <<expression, historyVars>>


\* ---------------------------------------------------------- specification
\* init() on a first run: nothing stored, and updateDisplay of the empty state.
Init ==
  /\ expression = <<>>
  /\ currentInput = <<>>
  /\ storage = NoItem
  /\ history = <<>>
  /\ displayExpression = <<>>
  /\ displayPreview = <<>>
  /\ displayResult = <<"0">>
  /\ expressionText = <<>>

\* What bounds a run: the input a key or click builds fits in n characters,
\* the log has at most h entries, and no evaluation left the followed range.
Followed(text) == \A i \in 1..Len(text) : text[i] # "?"
InRange ==
  /\ Followed(displayPreview')
  /\ Followed(displayResult')
  /\ Followed(currentInput')
Fits(n) == Len(expression') + Len(currentInput') <= n /\ InRange
Holds(h) == Len(history') <= h /\ InRange

\* The editing machine with every operation.  The keys pressed are the
\* buttons with data-value and with data-operator.
NumberKeys == {"0", "5"}
OperatorKeys == {"-", Divide}

PressNumber == \E digit \in NumberKeys : handleNumber(digit) /\ Fits(MaxLen)
PressOperator == \E operator \in OperatorKeys : handleOperator(operator) /\ Fits(MaxLen)
PressEquals == handleEquals(FALSE) /\ Holds(MaxHist)
PressClear == handleClear
PressBackspace == handleBackspace /\ InRange
PressPercent == handlePercent /\ InRange
\* A click on a rendered number span, with its data-value and data-index.
ClickNumber ==
  \E p \in 1..Len(expressionText) :
    /\ IsNumberToken(expressionText[p])
    /\ handleNumberClick(expressionText[p], p - 1)
    /\ Fits(MaxLen)
\* A click on a rendered operator span, with its data-op and data-index.
ClickOperator ==
  \E p \in 1..Len(expressionText) :
    /\ IsOperatorToken(expressionText[p])
    /\ handleOperatorClick(expressionText[p][1], p - 1)
    /\ InRange
\* A click on a history item (the mini list shows the first 5, the modal all).
ClickHistory ==
  \E index \in 0..(Len(history) - 1) : loadFromHistory(index) /\ InRange
ClickDelete == \E index \in 0..(Len(history) - 1) : deleteHistoryItem(index, FALSE)
ClickClearHistory == clearAllHistory(FALSE)

Next ==
  \/ PressNumber
  \/ PressOperator
  \/ PressEquals
  \/ PressClear
  \/ PressBackspace
  \/ PressPercent
  \/ ClickNumber
  \/ ClickOperator
  \/ ClickHistory
  \/ ClickDelete
  \/ ClickClearHistory

Spec == Init /\ [][Next]_vars

\* A session at the keyboard only, with other keys and longer input.
TypedNumberKeys == {"1", "2", "3"}
TypedOperatorKeys == {"+"}

TypeNumber == \E digit \in TypedNumberKeys : handleNumber(digit) /\ Fits(MaxTyped)
TypeOperator ==
  \E operator \in TypedOperatorKeys : handleOperator(operator) /\ Fits(MaxTyped)
TypeEquals == handleEquals(FALSE) /\ Holds(MaxHist)
TypeClear == handleClear
TypeBackspace == handleBackspace /\ InRange

NextTyped ==
  \/ TypeNumber
  \/ TypeOperator
  \/ TypeEquals
  \/ TypeClear
  \/ TypeBackspace

SpecTyped == Init /\ [][NextTyped]_vars

\* The history store alone: calculations are appended, deleted and cleared.
\* The n-th calculation is "n+0" with result "n", so different n give
\* different entries; a new one is named one above the front entry.
Calc(n) == Entry(NatToStr(n) \o <<"+", "0">>, NatToStr(n))
NextCalc == IF history = <<>> THEN 1 ELSE NatOf(history[1].result, 10, 0) + 1

append(expr, result, fails) ==
  LET added == addHistory(expr, result, fails)
  IN /\ history' = added.history
     /\ storage' = added.storage
     /\ UNCHANGED <<expression, currentInput, displayVars>>

AppendNew ==
  /\ NextCalc <= MaxAppends
  /\ append(Calc(NextCalc).expression, Calc(NextCalc).result, FALSE)
AppendSame ==
  /\ history # <<>>
  /\ append(history[1].expression, history[1].result, FALSE)
\* The newest or the oldest entry is deleted.
DeleteEntry ==
  \E index \in {0, Len(history) - 1} : deleteHistoryItem(index, FALSE)
ClearEntries == clearAllHistory(FALSE)

NextHistory ==
  \/ AppendNew
  \/ AppendSame
  \/ DeleteEntry
  \/ ClearEntries

SpecHistory == Init /\ [][NextHistory]_vars

\* The history store with writes that fail (setItem throws): a write may
\* fail as long as none has succeeded, and on logs of up to MaxStale entries.
WriteOutcomes ==
  IF ~storage.has \/ Len(history) <= MaxStale THEN BOOLEAN ELSE {FALSE}

FailingAppendNew ==
  \E fails \in WriteOutcomes :
    /\ NextCalc <= MaxAppends
    /\ append(Calc(NextCalc).expression, Calc(NextCalc).result, fails)
FailingAppendSame ==
  \E fails \in WriteOutcomes :
    /\ history # <<>>
    /\ append(history[1].expression, history[1].result, fails)
FailingDelete ==
  \E fails \in WriteOutcomes :
    \E index \in {0, Len(history) - 1} : deleteHistoryItem(index, fails)
FailingClear == \E fails \in WriteOutcomes : clearAllHistory(fails)

NextFailing ==
  \/ FailingAppendNew
  \/ FailingAppendSame
  \/ FailingDelete
  \/ FailingClear

SpecFailing == Init /\ [][NextFailing]_vars

\* The history store with calculations that come back: any of MaxCalcs
\* calculations is appended to a log of up to MaxLog entries, and any entry
\* is deleted.
AppendAny ==
  \E n \in 1..MaxCalcs :
    /\ append(Calc(n).expression, Calc(n).result, FALSE)
    /\ Len(history') <= MaxLog
DeleteAny == \E index \in 0..(Len(history) - 1) : deleteHistoryItem(index, FALSE)
ClearAny == clearAllHistory(FALSE)

NextRepeat ==
  \/ AppendAny
  \/ DeleteAny
  \/ ClearAny

SpecRepeat == Init /\ [][NextRepeat]_vars

\* Digit entry alone: the keys 0, 1 and . and the clear key, the key 1 at
\* most MaxOnes times in one input.
DigitKeys == {"0", "1", "."}
Ones(text) == Cardinality({i \in 1..Len(text) : text[i] = "1"})

EnterDigit ==
  \E digit \in DigitKeys : handleNumber(digit) /\ Ones(currentInput') <= MaxOnes
EnterClear == handleClear

NextDigits ==
  \/ EnterDigit
  \/ EnterClear

SpecDigits == Init /\ [][NextDigits]_vars

\* Page loads over a store that other pages of the origin write as well.
\* The arrays stored have up to MaxStored items: entries, and the object
\* {"expression": "1+1"}, which has no result.
StoredItems ==
  {Entry(<<"1", "+", "1">>, <<"2">>), Entry(<<"2">>, <<"2">>),
   [expression |-> <<"1", "+", "1">>]}
StoreContents ==
  {NoItem, EmptyText, Unparsable}
  \cup {Stored(log) : log \in UNION {[1..n -> StoredItems] : n \in 0..MaxStored}}

\* init() of a freshly loaded script: the state variables as declared, then
\* loadHistory and updateDisplay.
PageLoad ==
  \E denied \in BOOLEAN :
    /\ expression' = <<>>
    /\ currentInput' = <<>>
    /\ history' = loadHistory(<<>>, denied)
    /\ updateDisplay(expression', currentInput')
    /\ UNCHANGED storage
StoreWritten ==
  /\ storage' \in StoreContents
  /\ UNCHANGED <<expression, currentInput, history, displayVars>>

NextLoad ==
  \/ PageLoad
  \/ StoreWritten

SpecLoad == Init /\ [][NextLoad]_vars

\* Evaluation of stored expressions: the page is loaded over a store that
\* holds one entry, whose expression is any text of up to MaxEvalLen of
\* these characters; entries are recalled and evaluated.
EvalChars == {"6", "2", "0", "*", "/", "-", "(", ")", " ", "a"}
EvalInputs == UNION {[1..n -> EvalChars] : n \in 1..MaxEvalLen}

InitEval ==
  /\ history \in {<<Entry(text, <<"0">>)>> : text \in EvalInputs}
  /\ storage = Stored(history)
  /\ expression = <<>>
  /\ currentInput = <<>>
  /\ displayExpression = <<>>
  /\ displayPreview = <<>>
  /\ displayResult = <<"0">>
  /\ expressionText = <<>>

RecallStored ==
  \E index \in 0..(Len(history) - 1) : loadFromHistory(index) /\ InRange
EqualsRecalled == handleEquals(FALSE) /\ Holds(MaxHist + 1)

NextEval ==
  \/ RecallStored
  \/ EqualsRecalled

SpecEval == InitEval /\ [][NextEval]_vars


\* ------------------------------------------------------------------ claims
\* What the statements below expect, written from their own words.
Canonical(op) == CASE op = Times -> "*" [] op = Divide -> "/" [] OTHER -> op
Full == expression \o currentInput
\* Keys were pressed since a clear, with nothing in the log yet.
Typed(e, c) == expression = e /\ currentInput = c /\ history = <<>>
\* The log cut to its cap.
Capped(log) ==
  IF Len(log) > MAX_HISTORY_ITEMS THEN SubSeq(log, 1, MAX_HISTORY_ITEMS) ELSE log
\* What the display shows once it is refreshed for expression e and input c.
DisplayOf(e, c) ==
  <<ToDisplayOps(e), IF c # <<>> THEN c ELSE <<"0">>, Preview(e, c),
    renderExpressionHTML(e)>>

\* An equals on a non-empty input whose value is not the error marker.
C1_General ==
  LET result == evaluateExpression(Full)
      entry == Entry(ToDisplayOps(Full), result)
  IN (Full # <<>> /\ result # ErrorStr /\ handleEquals(FALSE)) =>
       /\ history' = (IF history # <<>> /\ history[1] = entry THEN history
                      ELSE Capped(<<entry>> \o history))
       /\ expression' = <<>>
       /\ currentInput' = result

\* The presses 1, 2, +, 3, = from a cleared state with an empty log.
C1_Scenario ==
  /\ (Typed(<<>>, <<>>) /\ handleNumber("1")) => Typed(<<>>, <<"1">>)'
  /\ (Typed(<<>>, <<"1">>) /\ handleNumber("2")) => Typed(<<>>, <<"1", "2">>)'
  /\ (Typed(<<>>, <<"1", "2">>) /\ handleOperator("+"))
       => Typed(<<"1", "2", "+">>, <<>>)'
  /\ (Typed(<<"1", "2", "+">>, <<>>) /\ handleNumber("3"))
       => Typed(<<"1", "2", "+">>, <<"3">>)'
  /\ (Typed(<<"1", "2", "+">>, <<"3">>) /\ handleEquals(FALSE))
       => /\ displayResult' = <<"1", "5">>
          /\ currentInput' = <<"1", "5">>
          /\ expression' = <<>>
          /\ history' = <<Entry(<<"1", "2", "+", "3">>, <<"1", "5">>)>>

C2_General ==
  (Full # <<>> /\ evaluateExpression(Full) = ErrorStr /\ handleEquals(FALSE)) =>
    /\ history' = history
    /\ displayResult' = ErrorStr
    /\ expression' = <<>>
    /\ currentInput' = <<>>

\* The presses 5, /, 0, = from a cleared state with an empty log.
C2_Scenario ==
  /\ (Typed(<<>>, <<>>) /\ handleNumber("5")) => Typed(<<>>, <<"5">>)'
  /\ (Typed(<<>>, <<"5">>) /\ handleOperator(Divide)) => Typed(<<"5", "/">>, <<>>)'
  /\ (Typed(<<"5", "/">>, <<>>) /\ handleNumber("0"))
       => Typed(<<"5", "/">>, <<"0">>)'
  /\ (Typed(<<"5", "/">>, <<"0">>) /\ handleEquals(FALSE))
       => /\ displayResult' = ErrorStr
          /\ Typed(<<>>, <<>>)'

NoErrorEntry == \A i \in 1..Len(history) : history[i].result # ErrorStr

\* C2: an equals whose value is the error marker leaves the log as it was,
\* shows "Error" and empties expression and the current input (so do the
\* presses 5, /, 0, =), and no entry of the log ever has the result "Error".
C2_ErrorsNeverStored == [][C2_General /\ C2_Scenario]_vars /\ []NoErrorEntry

C2_Witness ==
  /\ Typed(<<>>, <<>>)
  /\ displayResult = ErrorStr
  /\ displayExpression = <<"5", Divide, "0">>

\* The k newest of the calculations 1..n, newest first.
Newest(n, k) == [i \in 1..k |-> Calc(n + 1 - i)]

\* Appending calculation n + 1 to the log of the calculations 1..n.
C3_Appends ==
  LET n == Len(history)
  IN (history = Newest(n, n) /\ AppendNew) =>
       history' = Newest(n + 1, IF n < MAX_HISTORY_ITEMS THEN n + 1
                                ELSE MAX_HISTORY_ITEMS)

\* C3: whatever is appended, deleted or cleared, the log holds at most 100
\* entries; 101 different calculations appended to an empty log leave the
\* 100 newest, newest first, the oldest gone.
C3_HistoryCap == [](Len(history) <= MAX_HISTORY_ITEMS) /\ [][C3_Appends]_vars

C3_Witness == history = Newest(MAX_HISTORY_ITEMS + 1, MAX_HISTORY_ITEMS)

\* C4: appending the pair of the front entry leaves the log as it is, and
\* the same pair appended twice to an empty log gives a log of length 1.
C4_HistoryDedup ==
  [][/\ AppendSame => history' = history
     /\ (history = <<>> /\ AppendNew) => history' = <<Calc(1)>>
     /\ (history = <<Calc(1)>> /\ AppendSame) => history' = <<Calc(1)>>]_vars

C4_Witness == history = <<Calc(1)>> /\ storage = Stored(<<Calc(1)>>)

\* Position in expression of the first character of rendered token p.
RECURSIVE TokenStart(_)
TokenStart(p) ==
  IF p = 1 THEN 1 ELSE TokenStart(p - 1) + Len(expressionText[p - 1])

NextInCycle(op) ==
  CASE op = "+" -> "-" [] op = "-" -> Times [] op = Times -> Divide
    [] op = Divide -> "+"

\* C5: a click on an operator token of the freshly rendered expression, with
\* the position the projector gave it, replaces exactly that operator by the
\* canonical form of the next one in the cycle + - × ÷ and nothing else.
C5_OperatorTokenClick ==
  [][\A p \in 1..Len(expressionText) :
       (/\ expressionText = renderExpressionHTML(expression)
        /\ IsOperatorToken(expressionText[p])
        /\ handleOperatorClick(expressionText[p][1], p - 1))
       => expression' = [expression EXCEPT ![TokenStart(p)] =
                           Canonical(NextInCycle(expressionText[p][1]))]]_vars

\* C6: the current input is digits with at most one decimal point.
C6_CurrentInputShape ==
  /\ \A i \in 1..Len(currentInput) : currentInput[i] \in DigitSet \cup {"."}
  /\ Cardinality({i \in 1..Len(currentInput) : currentInput[i] = "."}) <= 1

Adjacent(e) == \E i \in 1..(Len(e) - 1) : e[i] \in CalcOps /\ e[i + 1] \in CalcOps

\* C7 as stated: expression never has two adjacent operators.
C7_NoAdjacentOperators == ~Adjacent(expression)

\* C7, amended: an operator pressed with nothing pending is appended to a
\* non-empty expression whatever it ends with, and a step that brings two
\* adjacent operators into expression is an operator press, a number-token
\* click or a history recall.
C7_OperatorsAppended ==
  [][/\ \A op \in DisplayOps :
          (currentInput = <<>> /\ expression # <<>> /\ handleOperator(op))
          => expression' = Append(expression, Canonical(op))
     /\ (~Adjacent(expression) /\ Adjacent(expression'))
          => \/ \E op \in DisplayOps : handleOperator(op)
             \/ \E index \in 0..(Len(history) - 1) : loadFromHistory(index)
             \/ \E p \in 1..Len(expressionText) :
                  handleNumberClick(expressionText[p], p - 1)]_vars

C7_Witness ==
  /\ expression = <<"5", "-", "-">>
  /\ currentInput = <<>>
  /\ displayExpression = <<"5", "-", "-">>

\* C8: a non-empty expression does not start with an operator.
C8_NoLeadingOperator ==
  IF expression = <<>> THEN TRUE ELSE expression[1] \notin CalcOps

\* C9: after handleOperator(op) the current input is empty, and an input v
\* pending before it sits at the end of the old expression, right before the
\* canonical form of op.
C9_OperatorFlush ==
  [][\A op \in DisplayOps :
       handleOperator(op) =>
         /\ currentInput' = <<>>
         /\ currentInput # <<>> =>
              expression' = expression \o currentInput \o <<Canonical(op)>>]_vars

C9_Witness ==
  /\ expression = <<"5", "/">>
  /\ currentInput = <<>>
  /\ displayExpression = <<"5", Divide>>
  /\ displayResult = <<"0">>

\* A token, an operator and the characters typed of a second token.
TwoTokens ==
  /\ Len(expression) >= 2
  /\ expression[Len(expression)] \in CalcOps
  /\ IsDigits(SubSeq(expression, 1, Len(expression) - 1))
  /\ IsDigits(currentInput)

\* C10: with a token T, an operator and a second token U typed, a backspace
\* takes the last character of what is left of U and nothing else, and the
\* state it leaves is the one typing leaves: expression T op, the shorter
\* input, the log as it was and the display refreshed for the two.
C10_BackspaceRoundTrip ==
  [][/\ (TwoTokens /\ currentInput # <<>> /\ handleBackspace) =>
          /\ expression' = expression
          /\ currentInput' = SubSeq(currentInput, 1, Len(currentInput) - 1)
          /\ historyVars' = historyVars
          /\ displayVars' = DisplayOf(expression', currentInput')
     /\ \A key \in DigitSet \cup DisplayOps :
          (/\ vars' # vars
           /\ TwoTokens'
           /\ IF key \in DigitSet THEN handleNumber(key) ELSE handleOperator(key))
          => /\ historyVars' = historyVars
             /\ displayVars' = DisplayOf(expression', currentInput')]_vars

C10_Witness ==
  /\ Typed(<<"1", "+">>, <<"2">>)
  /\ displayVars = DisplayOf(<<"1", "+">>, <<"2">>)


\* The input has no digit after a leading "0", at most one decimal point and
\* at most 16 characters.
C11_Shape ==
  /\ ~(Len(currentInput) >= 2 /\ currentInput[1] = "0" /\ currentInput[2] \in DigitSet)
  /\ Cardinality({i \in 1..Len(currentInput) : currentInput[i] = "."}) <= 1
  /\ Len(currentInput) <= MaxInputLen

\* C11: digits entered from a cleared state never give an input with a
\* digit after a leading "0", with two decimal points or with more than 16
\* characters; the digit 0 entered on the input "0" changes nothing, and a
\* decimal point entered on the empty input gives "0.".
C11_DigitEntry ==
  /\ []C11_Shape
  /\ [][/\ (currentInput = <<"0">> /\ handleNumber("0")) => vars' = vars
        /\ (currentInput = <<>> /\ handleNumber("."))
             => currentInput' = <<"0", ".">>]_vars

C11_Witness ==
  /\ expression = <<>>
  /\ Len(currentInput) = MaxInputLen
  /\ currentInput[1] = "0"
  /\ currentInput[2] = "."
  /\ currentInput[MaxInputLen] = "1"
  /\ displayResult = currentInput


\* A sequence of entries, and a store that holds the text of one.
IsLog(log) == \A i \in 1..Len(log) : DOMAIN log[i] = {"expression", "result"}
HoldsLog ==
  IF "log" \in DOMAIN storage THEN storage.has /\ IsLog(storage.log) ELSE FALSE

\* C12: whatever the store holds, a page load leaves a log that is a
\* sequence of entries, and the empty log when the key is missing or what is
\* stored is not the text of a sequence of entries.
C12_LoadYieldsLog ==
  [][PageLoad => /\ IsLog(history')
                 /\ ~HoldsLog => history' = <<>>]_vars


\* The log without the entry at 0-based position index.
Without(log, index) ==
  [i \in 1..(Len(log) - 1) |-> IF i <= index THEN log[i] ELSE log[i + 1]]

\* C13: an append, a delete or a clear whose store write fails leaves the
\* store as it was and the log as the operation leaves it when the write
\* succeeds: a new entry in front and the cut to 100, the entry gone, the
\* log empty.
C13_FailuresAbsorbed ==
  [][/\ \A n \in {NextCalc} :
          (NextCalc <= MaxAppends /\ append(Calc(n).expression, Calc(n).result, TRUE))
          => /\ history' = Capped(<<Calc(n)>> \o history)
             /\ storage' = storage
     /\ \A index \in 0..(Len(history) - 1) :
          deleteHistoryItem(index, TRUE)
          => /\ history' = Without(history, index)
             /\ storage' = storage
     /\ clearAllHistory(TRUE) => (history' = <<>> /\ storage' = storage)]_vars

C13_Witness ==
  /\ history = Newest(MAX_HISTORY_ITEMS + 1, MAX_HISTORY_ITEMS)
  /\ storage = NoItem


\* Arithmetic expressions over numeric literals, the four operators and
\* parentheses, read generously: a literal is a run of digits with at most
\* one decimal point, and a term may carry signs in front.  Each operator
\* gives the position after what it reads from position p, 0 if it fails.
RECURSIVE WfUnary(_, _), WfRest(_, _), WfExpr(_, _)
WfLiteral(t, p) ==
  LET run == PrefixRun(SubSeq(t, p, Len(t)), DigitSet \cup {"."})
      lit == SubSeq(t, p, p + run - 1)
  IN IF /\ \E i \in 1..run : lit[i] \in DigitSet
        /\ Cardinality({i \in 1..run : lit[i] = "."}) <= 1
     THEN p + run ELSE 0
WfUnary(t, p) ==
  IF p > Len(t) THEN 0
  ELSE IF t[p] \in {"+", "-"} THEN WfUnary(t, p + 1)
  ELSE IF t[p] = "("
  THEN LET q == WfExpr(t, p + 1)
       IN IF q = 0 \/ q > Len(t) THEN 0 ELSE IF t[q] = ")" THEN q + 1 ELSE 0
  ELSE WfLiteral(t, p)
WfRest(t, q) ==
  IF q = 0 \/ q > Len(t) THEN q
  ELSE IF t[q] \in {"+", "-", "*", "/"} THEN WfRest(t, WfUnary(t, q + 1))
  ELSE q
WfExpr(t, p) == WfRest(t, WfUnary(t, p))
WellFormed(t) == WfExpr(t, 1) = Len(t) + 1

\* C14: the value of an input is "0" when it is blank and "Error" when it
\* has a character outside 0-9 + - * / . ( ) or is not a well-formed
\* arithmetic expression (operator runs such as "6**2" and "6//2" are not)
\* or divides by zero.
C14_RejectsMalformed ==
  [][(Full # <<>> /\ handleEquals(FALSE)) =>
       LET t == ToCalcOps(SelectSeq(Full, NotWhitespace))
       IN IF t = <<>> THEN displayResult' = <<"0">>
          ELSE IF \E i \in 1..Len(t) :
                    t[i] \notin DigitSet \cup {"+", "-", "*", "/", ".", "(", ")"}
          THEN displayResult' = ErrorStr
          ELSE IF ~WellFormed(t) THEN displayResult' = ErrorStr
          ELSE t \in {<<"6", "/", "0">>, <<"0", "/", "0">>}
                 => displayResult' = ErrorStr]_vars


\* Length of the numeric literal at the end of e.
TrailingLiteral(e) == SuffixRun(e, DigitSet \cup {"."})

\* C15: a backspace on a non-empty input takes away the last character of
\* expression followed by the current input; with nothing pending and a
\* digit at the end of expression it leaves the trailing numeric literal
\* less its last character as the current input and expression cut right
\* before that literal.
C15_BackspaceOnConfirmed ==
  [][(Full # <<>> /\ handleBackspace) =>
       /\ Full' = SubSeq(Full, 1, Len(Full) - 1)
       /\ (currentInput = <<>> /\ expression[Len(expression)] \in DigitSet) =>
            LET n == TrailingLiteral(expression)
            IN /\ expression' = SubSeq(expression, 1, Len(expression) - n)
               /\ currentInput' = SubSeq(expression, Len(expression) - n + 1,
                                         Len(expression) - 1)]_vars


\* The numeric tokens of a text, in order, and how often x is among seq.
IsOperand(token) == token[1] \notin TokenSeparators
NumberTokens(text) == SelectSeq(SplitTokens(ToDisplayOps(text), 1, <<>>), IsOperand)
Count(x, seq) == Cardinality({i \in 1..Len(seq) : seq[i] = x})

\* C16: a click on a number token of the expression leaves the token's
\* value as the current input and expression shorter by that value, and the
\* numeric tokens of expression and the current input after the click are
\* those of expression followed by the pending input before it.
C16_NumberTokenClick ==
  [][\A p \in 1..Len(expressionText) :
       (/\ expressionText = renderExpressionHTML(expression)
        /\ IsNumberToken(expressionText[p])
        /\ handleNumberClick(expressionText[p], p - 1))
       => LET before == NumberTokens(Full)
              after == Append(NumberTokens(expression'), currentInput')
          IN /\ currentInput' = expressionText[p]
             /\ Len(expression') <= Len(Full) - Len(expressionText[p])
             /\ \A i \in 1..Len(before) :
                  Count(before[i], after) = Count(before[i], before)
             /\ Len(after) = Len(before)]_vars


\* C17: expression holds no display glyph: its operators are the canonical
\* + - * /, after a history recall too.
C17_CanonicalExpression ==
  \A i \in 1..Len(expression) : expression[i] \notin {Times, Divide}


\* C18: the three lines of the display are the projection of the state:
\* the expression line is expression in display glyphs, the preview line
\* the preview of (expression, currentInput), the result line the current
\* input, "0" if there is none; so equal states show equal displays.
C18_DisplayIsProjection ==
  /\ displayExpression = ToDisplayOps(expression)
  /\ displayPreview = Preview(expression, currentInput)
  /\ displayResult = (IF currentInput # <<>> THEN currentInput ELSE <<"0">>)


\* The store holds the text of the log, or nothing while the log is empty
\* and nothing was written.
InSync == storage = Stored(history) \/ (~storage.has /\ history = <<>>)

\* C19: an append of a new entry, a delete and a clear whose write succeeds
\* leave in the store the log they leave in memory, cut to the cap; and the
\* store stops mirroring the log only by an operation whose write fails.
C19_StoreMirrorsMemory ==
  [][/\ \A n \in {NextCalc} :
          (NextCalc <= MaxAppends /\ append(Calc(n).expression, Calc(n).result, FALSE))
          => /\ storage' = Stored(history')
             /\ Len(storage'.log) <= MAX_HISTORY_ITEMS
     /\ \A index \in 0..(Len(history) - 1) :
          deleteHistoryItem(index, FALSE) => storage' = Stored(history')
     /\ clearAllHistory(FALSE) => storage' = Stored(history')
     /\ (InSync /\ ~InSync') =>
          \/ \E n \in {NextCalc} : append(Calc(n).expression, Calc(n).result, TRUE)
          \/ \E index \in 0..(Len(history) - 1) : deleteHistoryItem(index, TRUE)
          \/ clearAllHistory(TRUE)]_vars

C19_Witness ==
  /\ Len(history) = MAX_HISTORY_ITEMS
  /\ history[1] = Calc(MAX_HISTORY_ITEMS + 1)
  /\ storage = Stored(history)


\* Two neighbouring entries of the log with the same expression and result.
Duplicates(log) == \E i \in 1..(Len(log) - 1) : log[i] = log[i + 1]

\* C20 as stated: no two neighbouring entries of the log are the same.
C20_NoAdjacentDuplicates == ~Duplicates(history)

\* C20, amended: an append never leaves the same entry in the two front
\* places of the log, and a step that brings two equal neighbours into a
\* log without any is the delete of an entry.
C20_DuplicatesOnlyByDelete ==
  [][/\ \A n \in 1..MaxCalcs :
          append(Calc(n).expression, Calc(n).result, FALSE)
          => /\ history'[1] = Calc(n)
             /\ Len(history') >= 2 => history'[2] # Calc(n)
     /\ (~Duplicates(history) /\ Duplicates(history'))
          => \E index \in 0..(Len(history) - 1) :
               /\ deleteHistoryItem(index, FALSE)
               /\ 0 < index
               /\ index < Len(history) - 1
               /\ history[index] = history[index + 2]]_vars

C20_Witness ==
  /\ history = <<Calc(1), Calc(1)>>
  /\ storage = Stored(history)

=============================================================================
